---- MODULE Spec2Model ----
(***************************************************************************)
(* Model of example/ping/ping.py: the host-side "ping" diagnostic of the   *)
(* usb-gadget repository.  main() finds the gadget, claims interface 0,    *)
(* reads the max packet size of the inbound endpoint, exchanges five test  *)
(* payloads with the echo ("pong") firmware and releases the interface.    *)
(*                                                                         *)
(* The USB library (usb.core / usb.util) is the environment: each call     *)
(* either returns one of the values its contract allows or raises.         *)
(***************************************************************************)
EXTENDS Integers, Sequences, FiniteSets

(* ------------------------------------------------------------------ *)
(* Program constants (ping.py:7-11)                                    *)
(* ------------------------------------------------------------------ *)
VID == 7531
PID == 260
INTERFACE == 0
EP_IN == 129
EP_OUT == 1

(* ------------------------------------------------------------------ *)
(* Bounds of the model                                                 *)
(* ------------------------------------------------------------------ *)
\* the largest wMaxPacketSize a descriptor of the model carries
MaxPacket == 16
\* the largest number of endpoint descriptors on the interface
MaxEndpoints == 2

\* wMaxPacketSize values of the modelled descriptors: 0 (an endpoint with no
\* bandwidth), sizes at and below the fixed payload lengths, and real sizes
PacketSizes == {0, 1, 5, 8, 10, MaxPacket}

Min(a, b) == IF a < b THEN a ELSE b

\* s[:n] of Python / a transfer cut at n bytes
Take(s, n) == SubSeq(s, 1, Min(n, Len(s)))

\* b * n of Python: n copies of the byte, none when n <= 0
Repeat(b, n) == [k \in 1..n |-> b]

(* ------------------------------------------------------------------ *)
(* State                                                               *)
(* ------------------------------------------------------------------ *)
VARIABLES
    bus,          \* the devices plugged in: what usb.core.find searches
    pc,           \* position of main()
    dev,          \* main's dev: the device found, or None
    detached,     \* dev.detach_kernel_driver was called
    claimed,      \* usb.util.claim_interface returned
    endpoints,    \* intf.endpoints(): the descriptors endpoint_config saw
    pkt_size,     \* main's pkt_size
    tests,        \* main's tests (the payloads, in list order)
    idx,          \* 1-based position of the for loop in tests
    io,           \* endpoint transfers issued so far, in order
    sent,         \* bytes_sent returned by each dev.write that returned
    reply,        \* what the peer put on the inbound endpoint (last read)
    response,     \* send_and_receive's return value (last read)
    results,      \* per vector compared: was "Mismatch" printed
    releaseCalled,\* usb.util.release_interface was called
    released,     \* usb.util.release_interface returned
    error,        \* the exception that ended main, "none" otherwise
    exitStatus    \* process exit status, -1 while running

vars == <<bus, pc, dev, detached, claimed, endpoints, pkt_size, tests, idx,
          io, sent, reply, response, results, releaseCalled, released,
          error, exitStatus>>

None == [vid |-> -1, pid |-> -1]
Gadget == [vid |-> VID, pid |-> PID]
OtherDevice == [vid |-> VID, pid |-> PID + 1]

Init ==
    /\ bus \in SUBSET {Gadget, OtherDevice}
    /\ pc = "find"
    /\ dev = None
    /\ detached = FALSE
    /\ claimed = FALSE
    /\ endpoints = <<>>
    /\ pkt_size = 0
    /\ tests = <<>>
    /\ idx = 0
    /\ io = <<>>
    /\ sent = <<>>
    /\ reply = <<>>
    /\ response = <<>>
    /\ results = <<>>
    /\ releaseCalled = FALSE
    /\ released = FALSE
    /\ error = "none"
    /\ exitStatus = -1

(* ------------------------------------------------------------------ *)
(* Process termination                                                 *)
(* ------------------------------------------------------------------ *)
\* sys.exit(1) (ping.py:51)
SysExit(code) ==
    /\ pc' = "exited"
    /\ exitStatus' = code

RaiseExitsZero(err) ==
    /\ pc' = "exited"
    /\ exitStatus' = 0
    /\ error' = err

\* an exception nothing in main catches: the interpreter prints the traceback
\* and the process ends with status 1; nothing after the raising call runs
Raise(err) ==
    /\ pc' = "exited"
    /\ exitStatus' = 1
    /\ error' = err

(* ------------------------------------------------------------------ *)
(* main: device lookup (ping.py:48-51)                                 *)
(* ------------------------------------------------------------------ *)
\* usb.core.find(idVendor=VID, idProduct=PID)
find(devices) ==
    IF \E d \in devices : d.vid = VID /\ d.pid = PID
    THEN CHOOSE d \in devices : d.vid = VID /\ d.pid = PID
    ELSE None

NotFoundUnchecked(d) == FALSE

\* dev is None
NotFound(d) == d = None

FindDevice ==
    /\ pc = "find"
    /\ dev' = find(bus)
    /\ IF NotFound(dev')
       THEN SysExit(1) /\ UNCHANGED error
       ELSE pc' = "probe" /\ UNCHANGED <<exitStatus, error>>
    /\ UNCHANGED <<bus, detached, claimed, endpoints, pkt_size, tests, idx, io,
                   sent, reply, response, results, releaseCalled, released>>

(* ------------------------------------------------------------------ *)
(* prepare_device (ping.py:13-20)                                      *)
(* ------------------------------------------------------------------ *)
\* dev.is_kernel_driver_active(INTERFACE): True, False, or raises
\* NotImplementedError / USBError, which the except clause swallows
ProbeDriver ==
    /\ pc = "probe"
    /\ \E outcome \in {"active", "inactive", "raises"} :
          pc' = IF outcome = "active" THEN "detach" ELSE "claim"
    /\ UNCHANGED <<bus, dev, detached, claimed, endpoints, pkt_size, tests, idx,
                   io, sent, reply, response, results, releaseCalled, released,
                   error, exitStatus>>

\* dev.detach_kernel_driver(INTERFACE): returns, or raises and is swallowed
DetachDriver ==
    /\ pc = "detach"
    /\ detached' = TRUE
    /\ pc' = "claim"
    /\ UNCHANGED <<bus, dev, claimed, endpoints, pkt_size, tests, idx, io, sent,
                   reply, response, results, releaseCalled, released, error,
                   exitStatus>>

\* usb.util.claim_interface(dev, INTERFACE) returns
ClaimInterface ==
    /\ pc = "claim"
    /\ claimed' = TRUE
    /\ pc' = "config"
    /\ UNCHANGED <<bus, dev, detached, endpoints, pkt_size, tests, idx, io, sent,
                   reply, response, results, releaseCalled, released, error,
                   exitStatus>>

\* usb.util.claim_interface raises USBError (outside the try block)
ClaimFault ==
    /\ pc = "claim"
    /\ Raise("USBError")
    /\ UNCHANGED <<bus, dev, detached, claimed, endpoints, pkt_size, tests, idx,
                   io, sent, reply, response, results, releaseCalled, released>>

(* ------------------------------------------------------------------ *)
(* endpoint_config (ping.py:22-36)                                     *)
(* ------------------------------------------------------------------ *)
\* an endpoint descriptor, with the two fields the function reads
Descriptor == [bEndpointAddress : {EP_OUT, EP_IN}, wMaxPacketSize : PacketSizes]

\* what intf.endpoints() can yield
EndpointLists == UNION {[1..n -> Descriptor] : n \in 0..MaxEndpoints}

\* the for loop of endpoint_config: pack_size is overwritten by every
\* descriptor whose address is EP_IN
RECURSIVE ScanEndpoints(_, _)
ScanEndpoints(eps, pack_size) ==
    IF eps = <<>>
    THEN pack_size
    ELSE ScanEndpoints(Tail(eps),
                       IF Head(eps).bEndpointAddress = EP_IN
                       THEN Head(eps).wMaxPacketSize
                       ELSE pack_size)

\* pack_size = 0 ... return pack_size
endpoint_config(eps) == ScanEndpoints(eps, 0)

(* ------------------------------------------------------------------ *)
(* main: the test vectors (ping.py:55-61)                              *)
(* ------------------------------------------------------------------ *)
\* b"Hello USB!"
Text == <<72, 101, 108, 108, 111, 32, 85, 83, 66, 33>>
\* b"1234567890"
Digits == <<49, 50, 51, 52, 53, 54, 55, 56, 57, 48>>
\* b"\x00\x01\x02\x03\x04"
Binary == <<0, 1, 2, 3, 4>>
\* b"ABC\x00DEF"
StringWithNull == <<65, 66, 67, 0, 68, 69, 70>>

DefaultTests(pkt) ==
    << [name |-> "Text",             data |-> Text],
       [name |-> "Digits",           data |-> Digits],
       [name |-> "Binary",           data |-> Binary],
       [name |-> "String with NULL", data |-> StringWithNull],
       [name |-> "pkt_size-1 bytes", data |-> Repeat(65, pkt - 1)] >>

\* pkt_size = endpoint_config(dev); tests = [...]; the for loop is entered
Configure ==
    /\ pc = "config"
    /\ \E eps \in EndpointLists :
          /\ endpoints' = eps
          /\ pkt_size' = endpoint_config(eps)
          /\ tests' = DefaultTests(endpoint_config(eps))
    /\ idx' = 1
    /\ pc' = "write"
    /\ UNCHANGED <<bus, dev, detached, claimed, io, sent, reply, response,
                   results, releaseCalled, released, error, exitStatus>>

\* dev.get_active_configuration() raises USBError
ConfigureFault ==
    /\ pc = "config"
    /\ Raise("USBError")
    /\ UNCHANGED <<bus, dev, detached, claimed, endpoints, pkt_size, tests, idx,
                   io, sent, reply, response, results, releaseCalled, released>>

(* ------------------------------------------------------------------ *)
(* send_and_receive (ping.py:38-45) and the loop body (ping.py:63-66)  *)
(* ------------------------------------------------------------------ *)
\* the counts dev.write can report for a payload: all of it, or fewer
WriteCounts(data) == {n \in {0, Len(data) - 1, Len(data)} : n >= 0}

ShortWriteOnlyIfMore(bytes_sent, payload) == bytes_sent > Len(payload)

\* bytes_sent != len(payload)
ShortWrite(bytes_sent, payload) == bytes_sent # Len(payload)

\* bytes_sent = dev.write(EP_OUT, payload, INTERFACE) returns; the check of
\* the count follows
SendWrite ==
    /\ pc = "write"
    /\ \E n \in WriteCounts(tests[idx].data) :
          /\ sent' = Append(sent, n)
          /\ IF ShortWrite(n, tests[idx].data)
             THEN Raise("RuntimeError")
             ELSE pc' = "read" /\ UNCHANGED <<error, exitStatus>>
    /\ io' = Append(io, [op |-> "write", ep |-> EP_OUT, vec |-> idx,
                         size |-> Len(tests[idx].data)])
    /\ UNCHANGED <<bus, dev, detached, claimed, endpoints, pkt_size, tests, idx,
                   reply, response, results, releaseCalled, released>>

\* dev.write raises USBError (timeout, stall, disconnect)
WriteFault ==
    /\ pc = "write"
    /\ io' = Append(io, [op |-> "write", ep |-> EP_OUT, vec |-> idx,
                         size |-> Len(tests[idx].data)])
    /\ Raise("USBError")
    /\ UNCHANGED <<bus, dev, detached, claimed, endpoints, pkt_size, tests, idx,
                   sent, reply, response, results, releaseCalled, released>>

\* what the peer may answer to a payload: the payload itself (a lossless
\* echo), a changed byte, a byte less, a byte more
PeerReplies(data) ==
    {data, Take(data, Len(data) - 1), Append(data, 0)}
    \cup (IF data = <<>> THEN {}
          ELSE {[data EXCEPT ![1] = (@ + 1) % 256]})

ReadSizeOfPayload(payload, size) == Len(payload)

\* the size argument of dev.read(EP_IN, pkt_size, INTERFACE)
ReadSize(payload, size) == size

MatchedByPrefix(resp, data) == resp = Take(data, Len(resp))

\* not (response != data)
Matched(resp, data) == resp = data

BreakOnMismatch(i, n, matched) == matched /\ i < n

\* the for loop goes on to the next vector whatever the comparison gave
Continue(i, n, matched) == i < n

\* received = dev.read(...) returns at most the requested number of bytes;
\* send_and_receive returns bytes(received); main compares and loops
Receive ==
    /\ pc = "read"
    /\ \E r \in PeerReplies(tests[idx].data) :
          /\ reply' = r
          /\ response' = Take(r, ReadSize(tests[idx].data, pkt_size))
    /\ io' = Append(io, [op |-> "read", ep |-> EP_IN, vec |-> idx,
                         size |-> ReadSize(tests[idx].data, pkt_size)])
    /\ results' = Append(results, [name |-> tests[idx].name,
                                   matched |-> Matched(response', tests[idx].data)])
    /\ IF Continue(idx, Len(tests), Matched(response', tests[idx].data))
       THEN idx' = idx + 1 /\ pc' = "write"
       ELSE idx' = idx /\ pc' = "release"
    /\ UNCHANGED <<bus, dev, detached, claimed, endpoints, pkt_size, tests, sent,
                   releaseCalled, released, error, exitStatus>>

\* dev.read raises USBError (timeout, stall, overflow, disconnect)
ReadFault ==
    /\ pc = "read"
    /\ io' = Append(io, [op |-> "read", ep |-> EP_IN, vec |-> idx,
                         size |-> ReadSize(tests[idx].data, pkt_size)])
    /\ Raise("USBError")
    /\ UNCHANGED <<bus, dev, detached, claimed, endpoints, pkt_size, tests, idx,
                   sent, reply, response, results, releaseCalled, released>>

(* ------------------------------------------------------------------ *)
(* main: release and exit (ping.py:68-72)                              *)
(* ------------------------------------------------------------------ *)
\* usb.util.release_interface(dev, INTERFACE) returns; main returns; exit(0)
Release ==
    /\ pc = "release"
    /\ releaseCalled' = TRUE
    /\ released' = TRUE
    /\ SysExit(0)
    /\ UNCHANGED <<bus, dev, detached, claimed, endpoints, pkt_size, tests, idx,
                   io, sent, reply, response, results, error>>

\* usb.util.release_interface raises USBError
ReleaseFault ==
    /\ pc = "release"
    /\ releaseCalled' = TRUE
    /\ Raise("USBError")
    /\ UNCHANGED <<bus, dev, detached, claimed, endpoints, pkt_size, tests, idx,
                   io, sent, reply, response, results, released>>

Next ==
    \/ FindDevice
    \/ ProbeDriver
    \/ DetachDriver
    \/ ClaimInterface
    \/ ClaimFault
    \/ Configure
    \/ ConfigureFault
    \/ SendWrite
    \/ WriteFault
    \/ Receive
    \/ ReadFault
    \/ Release
    \/ ReleaseFault

Spec == Init /\ [][Next]_vars

TypeOK ==
    /\ pc \in {"find", "probe", "detach", "claim", "config", "write", "read",
               "release", "exited"}
    /\ exitStatus \in {-1, 0, 1}
    /\ error \in {"none", "RuntimeError", "USBError"}
    /\ idx \in 0..5

(* ------------------------------------------------------------------ *)
(* Properties                                                          *)
(* ------------------------------------------------------------------ *)
\* the process has ended and no step of main can follow
Terminated == pc = "exited" /\ ~ENABLED Next

\* the for loop is running
InLoop == pc \in {"write", "read"}

\* the number n is k * m for some whole k
IsMultiple(n, m) == \E k \in 0..n : n = k * m

\* main ended on an exception raised by a transfer of the loop
TransferFaulted ==
    /\ pc = "exited"
    /\ error = "USBError"
    /\ io # <<>>
    /\ ~releaseCalled

\* C1: on every exit of main taken after claim_interface returned and the
\* loop was entered (the loop completed, a short write raised RuntimeError,
\* or dev.write / dev.read raised on some vector), release_interface has
\* been called before the process ended.
C1_ReleaseOnEveryExit ==
    (pc = "exited" /\ claimed /\ idx >= 1) => releaseCalled

\* C2: when dev.write reports a count that differs from the payload length,
\* main ends on RuntimeError, the write is the last transfer issued: no read
\* for that vector and no transfer for a later one.
C2_ShortWriteRaisesNoRead ==
    \A k \in 1..Len(sent) :
        sent[k] # Len(tests[k].data) =>
            /\ Terminated
            /\ error = "RuntimeError"
            /\ exitStatus = 1
            /\ k = Len(sent)
            /\ Len(io) = 2 * k - 1
            /\ io[Len(io)].op = "write" /\ io[Len(io)].vec = k
            /\ \A n \in 1..Len(io) :
                  io[n].vec <= k /\ (io[n].vec = k => io[n].op = "write")
            /\ Len(results) = k - 1

C2_Witness ==
    /\ Len(sent) = 3
    /\ sent[3] # Len(tests[3].data)
    /\ pc = "exited"

\* C3: when a write or read of vector k faults, the run is over: no result
\* exists for vector k or a later one, no transfer was issued for a later
\* vector, and the exit status is not 0.
C3_FaultAbortsRun ==
    TransferFaulted =>
        LET k == io[Len(io)].vec IN
            /\ Terminated
            /\ Len(results) = k - 1
            /\ \A n \in 1..Len(io) : io[n].vec <= k
            /\ exitStatus \notin {0, -1}

C3_Witness ==
    /\ TransferFaulted
    /\ io[Len(io)].op = "read"
    /\ io[Len(io)].vec = 3
    /\ Len(tests) = 5

\* C4: a mismatch is not an error: in a run without a raised exception that
\* printed a mismatch, the process is still running the loop or the release,
\* and when it has ended every vector was written and read, the interface
\* was released and the exit status is 0.
C4_MismatchIsNotFatal ==
    (error = "none" /\ \E i \in 1..Len(results) : ~results[i].matched) =>
        /\ pc \in {"write", "read", "release", "exited"}
        /\ pc # "exited" => exitStatus = -1 /\ ENABLED Next
        /\ pc \in {"release", "exited"} =>
              /\ Len(results) = Len(tests)
              /\ \A v \in 1..Len(tests) :
                    /\ \E n \in 1..Len(io) : io[n].op = "write" /\ io[n].vec = v
                    /\ \E n \in 1..Len(io) : io[n].op = "read" /\ io[n].vec = v
        /\ pc = "exited" => released /\ exitStatus = 0

C4_Witness ==
    /\ pc = "exited"
    /\ exitStatus = 0
    /\ Len(results) = 5
    /\ ~results[1].matched
    /\ ~results[3].matched
    /\ results[5].matched

\* C5: transfers are serialized in list order: the n-th transfer issued is
\* the write (n odd) or the read (n even) of vector (n+1) \div 2, a write
\* carries the whole payload to EP_OUT, a read asks EP_IN for pkt_size bytes,
\* the write of vector i+1 is issued only after the read of vector i has
\* returned, and a run that reaches the release has issued one write/read
\* pair for every vector.
C5_SerializedInOrder ==
    /\ \A n \in 1..Len(io) :
          /\ io[n].vec = (n + 1) \div 2
          /\ io[n].vec \in 1..Len(tests)
          /\ io[n].op = IF n % 2 = 1 THEN "write" ELSE "read"
          /\ io[n].op = "write" =>
                io[n].ep = EP_OUT /\ io[n].size = Len(tests[io[n].vec].data)
          /\ io[n].op = "read" =>
                io[n].ep = EP_IN /\ io[n].size = pkt_size
    /\ Len(results) >= (Len(io) - 1) \div 2
    /\ Len(results) <= Len(io) \div 2
    /\ (pc = "release" \/ releaseCalled) =>
          Len(tests) = 5 /\ Len(io) = 2 * Len(tests)

C5_Witness ==
    /\ pc = "exited"
    /\ exitStatus = 0
    /\ Len(io) = 10
    /\ pkt_size = 8

\* C6: when the lookup finds no device with the VID/PID pair, the process
\* ends with status 1 and did nothing else: no detach, no claim, no
\* descriptor enumeration, no transfer, no release.
C6_NotFoundExitsOne ==
    (pc # "find" /\ (dev = None \/ Gadget \notin bus)) =>
        /\ Terminated
        /\ exitStatus = 1
        /\ dev = None
        /\ ~detached
        /\ ~claimed
        /\ endpoints = <<>> /\ tests = <<>>
        /\ io = <<>> /\ sent = <<>> /\ results = <<>>
        /\ ~releaseCalled /\ ~released

C6_Witness ==
    /\ pc = "exited"
    /\ dev = None
    /\ bus = {OtherDevice}

\* C7: when the peer answers a vector with exactly the bytes written, the
\* read returns the payload and no mismatch is printed for that vector,
\* whatever pkt_size endpoint_config returned.
C7_LosslessEchoMatches ==
    Len(results) >= 1 =>
        LET k == Len(results) IN
            reply = tests[k].data =>
                response = tests[k].data /\ results[k].matched

\* C7 on an interface that has an inbound endpoint of positive size: the
\* truncation of a lossless echo does not need the missing-endpoint case
C7_WithInboundEndpoint ==
    (pkt_size > 0 /\ \E n \in 1..Len(endpoints) :
                        endpoints[n].bEndpointAddress = EP_IN) =>
        C7_LosslessEchoMatches

\* C8: a mismatch is printed for a vector exactly when the bytes the read
\* returned differ from the payload in content or in length; the payload
\* compared is the one of the list, and the bytes compared are what
\* dev.read returned.
C8_MatchedIffEqual ==
    Len(results) >= 1 =>
        LET k == Len(results) IN
            /\ results[k].name = tests[k].name
            /\ results[k].matched = (response = tests[k].data)
            /\ results[k].matched =
                  (/\ Len(response) = Len(tests[k].data)
                   /\ \A b \in 1..Len(response) : response[b] = tests[k].data[b])
            /\ response = Take(reply, pkt_size)
            /\ tests[k] = DefaultTests(pkt_size)[k]

C8_Witness ==
    /\ Len(results) = 2
    /\ ~results[2].matched
    /\ Len(response) < Len(tests[2].data)
    /\ response = Take(tests[2].data, Len(response))

\* C9: no payload of the default list has a length that is an exact
\* multiple of pkt_size, whatever pkt_size endpoint_config returned.
C9_NoExactMultiple ==
    InLoop =>
        \A t \in 1..Len(tests) : ~IsMultiple(Len(tests[t].data), pkt_size)

\* C9 on an interface that has an inbound endpoint of positive size: the
\* fixed payload lengths 10, 5 and 7 meet a multiple without pkt_size = 0
C9_WithInboundEndpoint ==
    (pkt_size > 0 /\ \E n \in 1..Len(endpoints) :
                        endpoints[n].bEndpointAddress = EP_IN) =>
        C9_NoExactMultiple

\* C10: in the loop, pkt_size is positive and is the wMaxPacketSize of an
\* enumerated descriptor whose address is EP_IN.
C10_PktSizePositive ==
    InLoop =>
        /\ pkt_size > 0
        /\ \E n \in 1..Len(endpoints) :
              /\ endpoints[n].bEndpointAddress = EP_IN
              /\ endpoints[n].wMaxPacketSize = pkt_size
====
